---- MODULE Spec2Model ----
(***************************************************************************)
(* Model of taxbot (src/main.go): the driver main(), the API client        *)
(* makeAPIRequest, the aggregator processOrders and the two CSV writers    *)
(* saveRecordsToCSV and saveToCSV.                                         *)
(*                                                                         *)
(* Money amounts are float64 in the source.  The model draws them from     *)
(* multiples of 1/8 dollar: such values and their small sums are exactly   *)
(* representable in float64, so float64 "+" on them is integer "+" on the  *)
(* number of eighths.  Formatting to two decimals is modelled as the       *)
(* round-half-to-even conversion strconv.FormatFloat / fmt "%.2f" apply.   *)
(***************************************************************************)
EXTENDS Integers, Sequences, FiniteSets, TLC

(* ------------------------------ bounds --------------------------------- *)
\* largest page count a response may report
MaxPages == 3
\* largest number of orders in one page response
MaxOrders == 1
\* largest number of orders folded when the aggregator is run on its own
MaxFoldLen == 3

(* --------------------------- value domains ----------------------------- *)
\* values of the SSKEY / SSSECRET environment variables
EnvValues == {"", "s3cr3t"}
\* values of the --start / --end flags
FlagValues == {"", "2023-01-31", "01/31/2023"}

\* Order (src/main.go:24-30); amounts in eighths of a dollar
Order(id, email, state, paid, tax) ==
    [OrderID |-> id, Email |-> email, BillTo |-> [State |-> state],
     TotalPaid |-> paid, TaxPaid |-> tax]
\* the orders the remote API may return: 10.125/0.75 to CA, 5.00/0.00 to NY
OrderPool == { Order("A-1", "a@x.io", "CA", 81, 6),
               Order("B-2", "b@x.io", "NY", 40, 0) }

RECURSIVE SeqsUpTo(_, _)
SeqsUpTo(S, n) ==
    IF n = 0 THEN {<<>>}
    ELSE LET shorter == SeqsUpTo(S, n - 1)
         IN  shorter \cup {Append(s, x) : s \in shorter, x \in S}

\* OrderResponse (src/main.go:17-22): the fields the driver reads
OrderResponses == [Orders : SeqsUpTo(OrderPool, MaxOrders), Pages : 0..MaxPages]
\* the zero value of OrderResponse
NoResponse == [Orders |-> <<>>, Pages |-> 0]

\* a file on disk: whether it exists, and its rows
File(rows) == [exists |-> TRUE, rows |-> rows]
\* a file that does not exist
NoFile == [exists |-> FALSE, rows |-> <<>>]
\* a file left over from an earlier run
StaleFile == File(<<<<"left by an earlier run">>>>)

(* ---------------------------- pure functions --------------------------- *)
\* time.Parse("2006-01-02", s) succeeds
ParsesAsDate(s) == s \in {"2023-01-31"}

Pad2(n) == IF n < 10 THEN "0" \o ToString(n) ELSE ToString(n)

\* strconv.FormatFloat(x, 'f', 2, 64) and fmt.Sprintf("%.2f", x) for x = e/8:
\* the nearest number of cents, ties to even
FormatFloat(e) ==
    LET twice == 25 * e                  \* 2 * (cents, exactly) = 2 * 100 * e / 8
        low   == twice \div 2
        cents == IF twice % 2 = 0 THEN low
                 ELSE IF low % 2 = 0 THEN low ELSE low + 1
    IN  ToString(cents \div 100) \o "." \o Pad2(cents % 100)

\* StateSummary (src/main.go:180-184)
StateSummary(n, paid, tax) == [NumOrders |-> n, TotalPaid |-> paid, TotalTaxPaid |-> tax]

\* make(map[string]StateSummary)
EmptyMap == [s \in {} |-> StateSummary(0, 0, 0)]

\* processOrder without line 168: the updated copy is never stored back
processOrder_notStored(order, stateResults) ==
    LET state == order.BillTo.State
    IN  IF state \in DOMAIN stateResults
        THEN stateResults
        ELSE stateResults @@ (state :> StateSummary(1, order.TotalPaid, order.TaxPaid))

\* processOrder with "=" for "+=" in lines 166-167
processOrder_assigns(order, stateResults) ==
    LET state == order.BillTo.State
    IN  IF state \in DOMAIN stateResults
        THEN [stateResults EXCEPT ![state] =
                 StateSummary(@.NumOrders + 1, order.TotalPaid, order.TaxPaid)]
        ELSE stateResults @@ (state :> StateSummary(1, order.TotalPaid, order.TaxPaid))

\* one iteration of the loop of processOrders (src/main.go:159-176)
processOrder(order, stateResults) ==
    LET state == order.BillTo.State
        amountPaid == order.TotalPaid
        taxPaid == order.TaxPaid
    IN  IF state \in DOMAIN stateResults
        THEN [stateResults EXCEPT ![state] =
                 StateSummary(@.NumOrders + 1, @.TotalPaid + amountPaid,
                              @.TotalTaxPaid + taxPaid)]
        ELSE stateResults @@ (state :> StateSummary(1, amountPaid, taxPaid))

RECURSIVE processOrders(_, _)
processOrders(orders, stateResults) ==
    IF orders = <<>> THEN stateResults
    ELSE processOrders(Tail(orders), processOrder(Head(orders), stateResults))

RawHeader == <<"Order ID", "Email", "State", "Total Paid", "Tax Paid">>
AggHeader == <<"State", "NumOrders", "TotalPaid", "TotalTaxPaid">>

\* the row saveRecordsToCSV writes for an order (src/main.go:119)
RecordRow(order) ==
    <<order.OrderID, order.Email, order.BillTo.State,
      FormatFloat(order.TotalPaid), FormatFloat(order.TaxPaid)>>

RECURSIVE RecordRows(_)
RecordRows(records) ==
    IF records = <<>> THEN <<>>
    ELSE <<RecordRow(Head(records))>> \o RecordRows(Tail(records))

\* what a complete saveRecordsToCSV leaves in the file
RecordsCSV(records) == <<RawHeader>> \o RecordRows(records)

\* the row saveToCSV writes for a state (src/main.go:205-210)
SummaryRow(state, summary) ==
    <<state, ToString(summary.NumOrders),
      FormatFloat(summary.TotalPaid), FormatFloat(summary.TotalTaxPaid)>>

\* the enumerations of a finite set: the orders `range` may visit a map's keys in
Enumerations(S) ==
    {q \in [1..Cardinality(S) -> S] : \A i, j \in DOMAIN q : i # j => q[i] # q[j]}

\* what a complete saveToCSV leaves in the file when range visits the keys in keyOrder
SummaryCSV(stateResults, keyOrder) ==
    <<AggHeader>> \o [i \in DOMAIN keyOrder |-> SummaryRow(keyOrder[i], stateResults[keyOrder[i]])]

\* the strict prefixes of a file's contents: what a failed write may leave
StrictPrefixes(rows) == {SubSeq(rows, 1, n) : n \in 0..(Len(rows) - 1)}

(* ------------------------------- state --------------------------------- *)
VARIABLES
    pc,                 \* the driver's position (spec 4.4)
    apiKey, apiSecret,  \* os.Getenv("SSKEY"), os.Getenv("SSSECRET")
    startDateFlag, endDateFlag,   \* --start, --end
    orderResponse,      \* main's orderResponse: the initial page-1 response
    page,               \* the loop counter
    pageResponse,       \* the loop body's own (shadowing) orderResponse
    stateResults,       \* map[string]StateSummary
    order_records_csv,  \* the raw-order file on disk
    state_results_csv,  \* the aggregate file on disk
    events,             \* history: the requests issued, the raw writes and the
                        \* folds, in order, each with its page number
    logLines,           \* what log.Println wrote
    priorRun,           \* history: did the files exist when the run started
    loopFetched,        \* history: how often each order came in a response of the loop
    pagesDisagreed,     \* history: a response of the loop reported another page
                        \* count than the initial response
    failedAt,           \* history: the step that ended the run early
    rawFailed,          \* history: some saveRecordsToCSV call has failed
    aggFault,           \* history: how the saveToCSV call went
    foldRun             \* the aggregator run on its own: the same orders in two
                        \* arrangements, and the two mappings they are folded into

vars == <<pc, apiKey, apiSecret, startDateFlag, endDateFlag, orderResponse, page,
          pageResponse, stateResults, order_records_csv, state_results_csv,
          events, logLines, priorRun, loopFetched, pagesDisagreed, failedAt,
          rawFailed, aggFault, foldRun>>

\* what no step of the driver changes
env == <<apiKey, apiSecret, startDateFlag, endDateFlag, priorRun, foldRun>>

InitialFile == IF priorRun THEN StaleFile ELSE NoFile

\* two arrangements into pages, how many pages of each were folded, and into what
FoldRun(left, right) ==
    [left |-> left, right |-> right, leftDone |-> 0, rightDone |-> 0,
     leftMap |-> EmptyMap, rightMap |-> EmptyMap]
NoFoldRun == FoldRun(<<>>, <<>>)

Init ==
    /\ pc = "ResolveConfig"
    /\ apiKey \in EnvValues
    /\ apiSecret \in EnvValues
    /\ startDateFlag \in FlagValues
    /\ endDateFlag \in FlagValues
    /\ orderResponse = NoResponse
    /\ page = 0
    /\ pageResponse = NoResponse
    /\ stateResults = EmptyMap
    /\ priorRun \in BOOLEAN
    /\ order_records_csv = InitialFile
    /\ state_results_csv = InitialFile
    /\ events = <<>>
    /\ logLines = <<>>
    /\ loopFetched = [o \in OrderPool |-> 0]
    /\ pagesDisagreed = FALSE
    /\ failedAt = "none"
    /\ rawFailed = FALSE
    /\ aggFault = "not called"
    /\ foldRun = NoFoldRun

(* ------------------------------ the driver ----------------------------- *)
\* line 42 with "&&" for "||"
CredentialsMissing_both == apiKey = "" /\ apiSecret = ""

\* src/main.go:42
CredentialsMissing == apiKey = "" \/ apiSecret = ""

\* src/main.go:38-65: credentials, then the two date flags
ResolveConfig ==
    /\ pc = "ResolveConfig"
    /\ IF CredentialsMissing
       THEN /\ logLines' = Append(logLines, "Please set the SSKEY and SSSECRET environment variables.")
            /\ pc' = "Failed" /\ failedAt' = "ResolveConfig"
       ELSE IF ~ParsesAsDate(startDateFlag)
       THEN /\ logLines' = Append(logLines, "Error parsing start date:")
            /\ pc' = "Failed" /\ failedAt' = "ResolveConfig"
       ELSE IF ~ParsesAsDate(endDateFlag)
       THEN /\ logLines' = Append(logLines, "Error parsing end date:")
            /\ pc' = "Failed" /\ failedAt' = "ResolveConfig"
       ELSE /\ pc' = "FetchFirstPage"
            /\ UNCHANGED <<logLines, failedAt>>
    /\ UNCHANGED <<env, orderResponse, page, pageResponse, stateResults,
                   order_records_csv, state_results_csv, events, loopFetched,
                   pagesDisagreed, rawFailed, aggFault>>

\* how a call of makeAPIRequest may end (src/main.go:127-155): with a response,
\* or with one of its four errors
FetchOutcomes == {"ok", "creating request", "sending request", "reading response",
                  "decoding response"}
\* client.Do is reached unless http.NewRequest failed
Issued(outcome) == outcome # "creating request"

\* the loop condition of src/main.go:82, on main's orderResponse
LoopContinues(p, first) == p <= first.Pages

RECURSIVE Occurrences(_, _)
Occurrences(orders, o) ==
    IF orders = <<>> THEN 0
    ELSE (IF Head(orders) = o THEN 1 ELSE 0) + Occurrences(Tail(orders), o)

\* FetchFirstPage with the loop started at page 2: the first response is taken to
\* stand for page 1
FetchFirstPage_startsAtTwo ==
    /\ pc = "FetchFirstPage"
    /\ \E outcome \in FetchOutcomes, r \in OrderResponses :
        /\ events' = IF Issued(outcome) THEN Append(events, <<"GET", 1>>) ELSE events
        /\ IF outcome = "ok"
           THEN /\ orderResponse' = r
                /\ logLines' = Append(logLines, "JSON RESPONSE:")
                /\ stateResults' = EmptyMap
                /\ page' = 2
                /\ pc' = IF LoopContinues(2, r) THEN "FetchPage" ELSE "WriteAggregate"
                /\ UNCHANGED failedAt
           ELSE /\ logLines' = Append(logLines, "Error making API request:")
                /\ pc' = "Failed" /\ failedAt' = "FetchFirstPage"
                /\ UNCHANGED <<orderResponse, stateResults, page>>
    /\ UNCHANGED <<env, pageResponse, order_records_csv, state_results_csv,
                   loopFetched, pagesDisagreed, rawFailed, aggFault>>

\* src/main.go:71-80 and the first evaluation of the loop condition
FetchFirstPage ==
    /\ pc = "FetchFirstPage"
    /\ \E outcome \in FetchOutcomes, r \in OrderResponses :
        /\ events' = IF Issued(outcome) THEN Append(events, <<"GET", 1>>) ELSE events
        /\ IF outcome = "ok"
           THEN /\ orderResponse' = r
                /\ logLines' = Append(logLines, "JSON RESPONSE:")
                /\ stateResults' = EmptyMap
                /\ page' = 1
                /\ pc' = IF LoopContinues(1, r) THEN "FetchPage" ELSE "WriteAggregate"
                /\ UNCHANGED failedAt
           ELSE /\ logLines' = Append(logLines, "Error making API request:")
                /\ pc' = "Failed" /\ failedAt' = "FetchFirstPage"
                /\ UNCHANGED <<orderResponse, stateResults, page>>
    /\ UNCHANGED <<env, pageResponse, order_records_csv, state_results_csv,
                   loopFetched, pagesDisagreed, rawFailed, aggFault>>

\* FetchPage with "break" for "return" in line 87
FetchPage_breaks ==
    /\ pc = "FetchPage"
    /\ \E outcome \in FetchOutcomes, r \in OrderResponses :
        /\ events' = IF Issued(outcome) THEN Append(events, <<"GET", page>>) ELSE events
        /\ IF outcome = "ok"
           THEN /\ pageResponse' = r
                /\ loopFetched' =
                       [o \in OrderPool |-> loopFetched[o] + Occurrences(r.Orders, o)]
                /\ pagesDisagreed' = (pagesDisagreed \/ r.Pages # orderResponse.Pages)
                /\ logLines' = Append(logLines, "JSON RESPONSE:")
                /\ pc' = "SaveRecords"
                /\ UNCHANGED failedAt
           ELSE /\ logLines' = Append(logLines, "Error making API request:")
                /\ pc' = "WriteAggregate" /\ failedAt' = "FetchPage"
                /\ UNCHANGED <<pageResponse, loopFetched, pagesDisagreed>>
    /\ UNCHANGED <<env, orderResponse, page, stateResults, order_records_csv,
                   state_results_csv, rawFailed, aggFault>>

\* FetchPage with "=" for ":=" in line 84: the response replaces main's orderResponse
FetchPage_assignsOuter ==
    /\ pc = "FetchPage"
    /\ \E outcome \in FetchOutcomes, r \in OrderResponses :
        /\ events' = IF Issued(outcome) THEN Append(events, <<"GET", page>>) ELSE events
        /\ IF outcome = "ok"
           THEN /\ pageResponse' = r
                /\ orderResponse' = r
                /\ loopFetched' =
                       [o \in OrderPool |-> loopFetched[o] + Occurrences(r.Orders, o)]
                /\ pagesDisagreed' = (pagesDisagreed \/ r.Pages # orderResponse.Pages)
                /\ logLines' = Append(logLines, "JSON RESPONSE:")
                /\ pc' = "SaveRecords"
                /\ UNCHANGED failedAt
           ELSE /\ logLines' = Append(logLines, "Error making API request:")
                /\ pc' = "Failed" /\ failedAt' = "FetchPage"
                /\ UNCHANGED <<pageResponse, loopFetched, pagesDisagreed, orderResponse>>
    /\ UNCHANGED <<env, page, stateResults, order_records_csv,
                   state_results_csv, rawFailed, aggFault>>

\* src/main.go:83-88: the request for the page of this iteration
FetchPage ==
    /\ pc = "FetchPage"
    /\ \E outcome \in FetchOutcomes, r \in OrderResponses :
        /\ events' = IF Issued(outcome) THEN Append(events, <<"GET", page>>) ELSE events
        /\ IF outcome = "ok"
           THEN /\ pageResponse' = r
                /\ loopFetched' =
                       [o \in OrderPool |-> loopFetched[o] + Occurrences(r.Orders, o)]
                /\ pagesDisagreed' = (pagesDisagreed \/ r.Pages # orderResponse.Pages)
                /\ logLines' = Append(logLines, "JSON RESPONSE:")
                /\ pc' = "SaveRecords"
                /\ UNCHANGED failedAt
           ELSE /\ logLines' = Append(logLines, "Error making API request:")
                /\ pc' = "Failed" /\ failedAt' = "FetchPage"
                /\ UNCHANGED <<pageResponse, loopFetched, pagesDisagreed>>
    /\ UNCHANGED <<env, orderResponse, page, stateResults, order_records_csv,
                   state_results_csv, rawFailed, aggFault>>

\* how a call of saveRecordsToCSV may end (src/main.go:103-124): os.Create fails
\* (line 104), or a write or the deferred Flush fails (lines 111, 115, 120; their
\* errors are dropped and nil is returned), or all of it succeeds
RawFaults == {"ok", "create", "write"}

\* the file after saveRecordsToCSV(records, "order_records.csv"): os.Create
\* truncates, the writes fill it; onDisk is what a failed write got to disk
saveRecordsToCSV(file, records, fault, onDisk) ==
    CASE fault = "create" -> file
      [] fault = "write"  -> File(onDisk)
      [] OTHER            -> File(RecordsCSV(records))

\* src/main.go:89: the raw rows of this page; the returned error is not looked at
SaveRecords ==
    /\ pc = "SaveRecords"
    /\ \E fault \in RawFaults, onDisk \in StrictPrefixes(RecordsCSV(pageResponse.Orders)) :
        /\ order_records_csv' =
               saveRecordsToCSV(order_records_csv, pageResponse.Orders, fault, onDisk)
        /\ rawFailed' = (rawFailed \/ fault # "ok")
    /\ events' = Append(events, <<"save", page>>)
    /\ pc' = "ProcessOrders"
    /\ UNCHANGED <<env, orderResponse, page, pageResponse, stateResults,
                   state_results_csv, logLines, loopFetched, pagesDisagreed,
                   failedAt, aggFault>>

\* src/main.go:90-91 and 82: fold the page in, page++, test the loop condition;
\* the loop body's orderResponse goes out of scope
ProcessOrders ==
    /\ pc = "ProcessOrders"
    /\ stateResults' = processOrders(pageResponse.Orders, stateResults)
    /\ events' = Append(events, <<"fold", page>>)
    /\ page' = page + 1
    /\ pc' = IF LoopContinues(page + 1, orderResponse)
             THEN "FetchPage" ELSE "WriteAggregate"
    /\ pageResponse' = NoResponse
    /\ UNCHANGED <<env, orderResponse, order_records_csv, state_results_csv,
                   logLines, loopFetched, pagesDisagreed, failedAt, rawFailed,
                   aggFault>>

\* how a call of saveToCSV may end (src/main.go:187-218): os.Create fails (line
\* 188), a row write fails (line 211), the deferred Flush fails (line 194, its
\* error is dropped), or all of it succeeds
AggFaults == {"ok", "create", "write", "flush"}

\* saveToCSV opening the file for append instead of os.Create
saveToCSV_appends(file, results, keyOrder, fault, onDisk) ==
    CASE fault = "create"            -> file
      [] fault \in {"write", "flush"} -> File(file.rows \o onDisk)
      [] OTHER                       -> File(file.rows \o SummaryCSV(results, keyOrder))

\* the file after saveToCSV(stateResults, "state_results.csv")
saveToCSV(file, results, keyOrder, fault, onDisk) ==
    CASE fault = "create"            -> file
      [] fault \in {"write", "flush"} -> File(onDisk)
      [] OTHER                       -> File(SummaryCSV(results, keyOrder))

\* the error saveToCSV returns
saveToCSVFails(fault) == fault \in {"create", "write"}

\* src/main.go:94-99
WriteAggregate ==
    /\ pc = "WriteAggregate"
    /\ \E fault \in AggFaults, keyOrder \in Enumerations(DOMAIN stateResults) :
       \E onDisk \in StrictPrefixes(SummaryCSV(stateResults, keyOrder)) :
        \* a row write can only fail where there is a row
        /\ fault = "write" => DOMAIN stateResults # {}
        /\ state_results_csv' =
               saveToCSV(state_results_csv, stateResults, keyOrder, fault, onDisk)
        /\ aggFault' = fault
        /\ IF saveToCSVFails(fault)
           THEN /\ logLines' = Append(logLines, "Error saving state results to CSV:")
                /\ pc' = "Failed" /\ failedAt' = "WriteAggregate"
           ELSE /\ logLines' = Append(logLines, "State results saved to state_results.csv")
                /\ pc' = "Done"
                /\ UNCHANGED failedAt
    /\ UNCHANGED <<env, orderResponse, page, pageResponse, stateResults,
                   order_records_csv, events, loopFetched, pagesDisagreed,
                   rawFailed>>

\* the page numbers of the requests issued, in order
RECURSIVE RequestsOf(_)
RequestsOf(es) ==
    IF es = <<>> THEN <<>>
    ELSE (IF Head(es)[1] = "GET" THEN <<Head(es)[2]>> ELSE <<>>) \o RequestsOf(Tail(es))
requests == RequestsOf(events)

Next ==
    \/ ResolveConfig
    \/ FetchFirstPage
    \/ FetchPage
    \/ SaveRecords
    \/ ProcessOrders
    \/ WriteAggregate

Spec == Init /\ [][Next]_vars

(* ----------------------- the aggregator on its own --------------------- *)
\* the orders the aggregator is run on: two of them share a state
FoldPool == OrderPool \cup { Order("C-3", "c@x.io", "CA", 16, 1) }

\* the rearrangements of a sequence of orders
Rearrangements(s) ==
    {t \in SeqsUpTo(FoldPool, Len(s)) :
        /\ Len(t) = Len(s)
        /\ \A o \in FoldPool : Occurrences(t, o) = Occurrences(s, o)}

\* the ways to cut a sequence of orders into two pages (either may be empty)
Pagings(s) == {<<SubSeq(s, 1, k), SubSeq(s, k + 1, Len(s))>> : k \in 0..Len(s)}

InitAggregator ==
    /\ pc = "Aggregator"
    /\ apiKey = "" /\ apiSecret = "" /\ startDateFlag = "" /\ endDateFlag = ""
    /\ orderResponse = NoResponse
    /\ page = 0
    /\ pageResponse = NoResponse
    /\ stateResults = EmptyMap
    /\ priorRun = FALSE
    /\ order_records_csv = NoFile
    /\ state_results_csv = NoFile
    /\ events = <<>>
    /\ logLines = <<>>
    /\ loopFetched = [o \in OrderPool |-> 0]
    /\ pagesDisagreed = FALSE
    /\ failedAt = "none"
    /\ rawFailed = FALSE
    /\ aggFault = "not called"
    /\ \E s \in SeqsUpTo(FoldPool, MaxFoldLen) : \E t \in Rearrangements(s) :
       \E left \in Pagings(s), right \in Pagings(t) :
           foldRun = FoldRun(left, right)

driver == <<pc, apiKey, apiSecret, startDateFlag, endDateFlag, orderResponse, page,
            pageResponse, stateResults, order_records_csv, state_results_csv,
            events, logLines, priorRun, loopFetched, pagesDisagreed, failedAt,
            rawFailed, aggFault>>

\* processOrders on the next page of the first arrangement
FoldLeft ==
    /\ pc = "Aggregator"
    /\ foldRun.leftDone < Len(foldRun.left)
    /\ foldRun' = [foldRun EXCEPT
           !.leftMap = processOrders(foldRun.left[foldRun.leftDone + 1], @),
           !.leftDone = @ + 1]
    /\ UNCHANGED driver

\* processOrders on the next page of the second arrangement
FoldRight ==
    /\ pc = "Aggregator"
    /\ foldRun.rightDone < Len(foldRun.right)
    /\ foldRun' = [foldRun EXCEPT
           !.rightMap = processOrders(foldRun.right[foldRun.rightDone + 1], @),
           !.rightDone = @ + 1]
    /\ UNCHANGED driver

NextAggregator == FoldLeft \/ FoldRight

SpecAggregator == InitAggregator /\ [][NextAggregator]_vars

(* ------------------------------- claims -------------------------------- *)
RECURSIVE SumOver(_, _)
\* the sum of f over the finite set S
SumOver(S, f) ==
    IF S = {} THEN 0
    ELSE LET x == CHOOSE y \in S : TRUE IN f[x] + SumOver(S \ {x}, f)

Range(q) == {q[i] : i \in DOMAIN q}
IsPrefix(a, b) == Len(a) <= Len(b) /\ a = SubSeq(b, 1, Len(a))

\* the page count of the initial response
N == orderResponse.Pages
\* the orders of the page the loop has fetched and not yet folded in
Pending == IF pc \in {"SaveRecords", "ProcessOrders"} THEN pageResponse.Orders ELSE <<>>
\* how often order o came in the loop pages folded in so far
Folded(o) == loopFetched[o] - Occurrences(Pending, o)
OrdersOfState(state) == {o \in OrderPool : o.BillTo.State = state}
\* the loop has run to its end
LoopOver == pc \in {"WriteAggregate", "Done"} \/ failedAt = "WriteAggregate"
\* no order came in any response of the loop
NoOrders == \A o \in OrderPool : loopFetched[o] = 0
\* the events of a run over n pages in which every fetch succeeds
RECURSIVE LoopEvents(_)
LoopEvents(n) ==
    IF n = 0 THEN <<>>
    ELSE LoopEvents(n - 1) \o << <<"GET", n>>, <<"save", n>>, <<"fold", n>> >>
RunEvents(n) == << <<"GET", 1>> >> \o LoopEvents(n)
RunRequests(n) == <<1>> \o [k \in 1..n |-> k]

\* C1: at every point of the run the keys of stateResults are the states of the
\* orders of the loop pages folded in so far, and each summary holds their
\* number and the sums of their paid and tax amounts.
C1_SummariesMatchLoopOrders ==
    /\ DOMAIN stateResults = {o.BillTo.State : o \in {x \in OrderPool : Folded(x) > 0}}
    /\ \A state \in DOMAIN stateResults :
        LET os == OrdersOfState(state) IN
        /\ stateResults[state].NumOrders = SumOver(os, [o \in os |-> Folded(o)])
        /\ stateResults[state].TotalPaid =
               SumOver(os, [o \in os |-> Folded(o) * o.TotalPaid])
        /\ stateResults[state].TotalTaxPaid =
               SumOver(os, [o \in os |-> Folded(o) * o.TaxPaid])

\* three pages folded in, with orders of both states and a state seen twice
C1_Witness ==
    /\ pc = "WriteAggregate" /\ page = 4
    /\ DOMAIN stateResults = {"CA", "NY"}
    /\ stateResults["CA"].NumOrders = 2
    /\ stateResults["CA"].TotalPaid = 162

\* C2: once a fetch has failed the aggregate file is what it was when the run
\* started, and saveToCSV is called only after the initial request and the
\* requests for pages 1..N have all succeeded.
C2_FetchFailureLeavesAggregate ==
    /\ failedAt \in {"FetchFirstPage", "FetchPage"} =>
           state_results_csv = InitialFile /\ aggFault = "not called"
    /\ (aggFault # "not called" \/ state_results_csv # InitialFile) =>
           /\ requests = RunRequests(N)
           /\ Len(SelectSeq(logLines, LAMBDA l : l = "JSON RESPONSE:")) = N + 1
           /\ ~\E i \in DOMAIN logLines : logLines[i] = "Error making API request:"

\* the request for page 3 failed after two pages with orders were folded in, and an
\* aggregate file of an earlier run is on disk
C2_Witness ==
    /\ pc = "Failed" /\ failedAt = "FetchPage" /\ page = 3
    /\ requests = <<1, 1, 2, 3>>
    /\ stateResults # EmptyMap
    /\ priorRun

\* C3: when the request for page k >= 2 has failed in the loop, the raw-order file
\* still holds the rows written for the pages 1..k-1 (none of those writes failed).
C3_EarlierPagesRowsRemain ==
    (failedAt = "FetchPage" /\ page >= 2 /\ ~rawFailed) =>
        /\ order_records_csv.exists
        /\ \A o \in OrderPool :
               loopFetched[o] > 0 => RecordRow(o) \in Range(order_records_csv.rows)

\* C4: with a credential missing or a date flag that does not parse, no request
\* is issued, neither file is touched and the run goes nowhere but to Failed.
C4_ConfigFailureDoesNothing ==
    (\/ apiKey = "" \/ apiSecret = ""
     \/ ~ParsesAsDate(startDateFlag) \/ ~ParsesAsDate(endDateFlag)) =>
        /\ pc \in {"ResolveConfig", "Failed", "Aggregator"}
        /\ events = <<>>
        /\ state_results_csv = InitialFile
        /\ order_records_csv = InitialFile
        /\ aggFault = "not called"

\* the run has stopped on a missing secret, with the key set and files on disk
C4_Witness ==
    /\ pc = "Failed" /\ failedAt = "ResolveConfig"
    /\ apiKey # "" /\ apiSecret = ""
    /\ priorRun

\* C5: once a raw-order write has failed, no step issues a request or touches
\* the aggregate file; and a step in which the aggregate write fails ends the run
\* in Failed with no success logged.
C5_WriteFailureAbortsRun ==
    [][ /\ rawFailed =>
               /\ RequestsOf(events') = RequestsOf(events)
               /\ state_results_csv' = state_results_csv
               /\ aggFault' = "not called"
        /\ aggFault' \in {"create", "write", "flush"} =>
               /\ pc' = "Failed"
               /\ ~\E i \in DOMAIN logLines' :
                      logLines'[i] = "State results saved to state_results.csv"
      ]_vars

\* C6: right after the write call for page k, the raw-order file holds the
\* header and exactly the rows of page k, in their order in the page.
C6_RawFileHoldsCurrentPage ==
    pc = "ProcessOrders" =>
        order_records_csv = File(RecordsCSV(pageResponse.Orders))

C8_FoldOrderIndependent ==
    (/\ foldRun.leftDone = Len(foldRun.left)
     /\ foldRun.rightDone = Len(foldRun.right)) =>
        /\ foldRun.leftMap = foldRun.rightMap
        /\ \A state \in DOMAIN foldRun.leftMap :
               foldRun.leftMap[state].NumOrders =
                   LET os == {o \in FoldPool : o.BillTo.State = state}
                   IN  SumOver(os, [o \in os |->
                           SumOver(DOMAIN foldRun.right,
                                   [i \in DOMAIN foldRun.right |->
                                       Occurrences(foldRun.right[i], o)])])

\* both arrangements are folded; they differ in order and in paging, and two
\* orders of different amounts went to the same state
C8_Witness ==
    /\ pc = "Aggregator"
    /\ foldRun.leftDone = 2 /\ foldRun.rightDone = 2
    /\ foldRun.left[1] \o foldRun.left[2] # foldRun.right[1] \o foldRun.right[2]
    /\ Len(foldRun.left[1]) # Len(foldRun.right[1])
    /\ DOMAIN foldRun.leftMap = {"CA", "NY"}
    /\ foldRun.leftMap["CA"].TotalPaid = 97

\* C9: while no fetch fails the driver's steps are a prefix of GET 1, then GET k,
\* save k, fold k for k = 1..N, and all of it once the loop is over; nothing is
\* folded in before the loop's own request for page 1, and at the end the counts
\* add up to the orders of the loop's responses.
C9_RequestsInOrder ==
    failedAt \notin {"ResolveConfig", "FetchFirstPage", "FetchPage"} =>
        /\ IsPrefix(events, RunEvents(N))
        /\ LoopOver => events = RunEvents(N) /\ Len(requests) = N + 1
        /\ (~\E i \in DOMAIN events : events[i] = <<"fold", 1>>) => stateResults = EmptyMap
        /\ LoopOver =>
               SumOver(DOMAIN stateResults,
                       [state \in DOMAIN stateResults |-> stateResults[state].NumOrders])
                 = SumOver(OrderPool, loopFetched)

\* a run over the most pages is Done; the initial response held orders, the
\* loop's responses held none, and nothing was counted
C9_Witness ==
    /\ pc = "Done" /\ N = MaxPages
    /\ orderResponse.Orders # <<>>
    /\ requests = RunRequests(MaxPages)
    /\ stateResults = EmptyMap

\* C10: the requests are always a prefix of 1, 1, 2, ..., N for the N of the
\* initial response, the loop counter never passes N + 1, and the loop is over
\* exactly when it is N + 1, whatever page counts the loop's responses report.
C10_LoopBoundFixed ==
    /\ IsPrefix(requests, RunRequests(N))
    /\ Len(requests) <= N + 1
    /\ \A i \in DOMAIN requests : i >= 2 => requests[i] <= N
    /\ page <= N + 1
    /\ pc \in {"FetchPage", "SaveRecords", "ProcessOrders"} => page <= N
    /\ LoopOver => page = N + 1

\* a run over the most pages is Done although a response of the loop reported
\* another page count
C10_Witness ==
    /\ pc = "Done" /\ N = MaxPages
    /\ pagesDisagreed
    /\ Len(requests) = MaxPages + 1

====
